---- MODULE Spec2Model ----
(***************************************************************************)
(* Model of src/Lab3.py: newton_raphson, secant_method and false_position. *)
(*                                                                         *)
(* One behaviour is one call of one of the three routines.  Numbers are    *)
(* exact rationals [num, den] in lowest terms (den > 0); func and deriv    *)
(* are arbitrary pure functions, revealed one evaluation at a time and     *)
(* remembered in fmemo / dmemo, so a second evaluation at the same point   *)
(* gives the same value.  A Python exception ends the call in pc =         *)
(* "raised".                                                               *)
(***************************************************************************)
EXTENDS Integers, Sequences, FiniteSets, TLC

VARIABLES method, args, pc, i, history, x_prev, x_curr, a, b, c, c_old,
          fmemo, dmemo, left_by, result, exc

\* method   the routine called: "newton", "secant" or "falsepos"
\* args     the arguments the call was given (lines 16, 30, 43)
\* pc       "check" (line 45), "loop" (the for statement), "return" (lines
\*          28, 41, 58), "done" (returned) or "raised"
\* i        the number of loop passes begun; the pass running has index i
\* history  the list of records
\* x_prev, x_curr, a, b, c, c_old   the locals of those names
\* fmemo, dmemo   the values func and deriv have returned so far
\* left_by  how the for statement ended: "guard" (break of lines 22, 35),
\*          "converged" (break of lines 27, 40, 54) or "exhausted"
\* result   the pair returned; exc the exception raised
vars == <<method, args, pc, i, history, x_prev, x_curr, a, b, c, c_old,
          fmemo, dmemo, left_by, result, exc>>

(***************************************************************************)
(* Bounds of the model.                                                    *)
(***************************************************************************)
\* max_iter ranges over -1 .. MaxIter
MaxIter == 3
\* the largest magnitude of a value of func or deriv
MaxVal == 2

(***************************************************************************)
(* Exact rational arithmetic.                                              *)
(***************************************************************************)
Abs(m) == IF m < 0 THEN -m ELSE m

RECURSIVE GCD(_, _)
GCD(m, k) == IF k = 0 THEN m ELSE GCD(k, m % k)

\* m / k in lowest terms with a positive denominator (k # 0)
Rat(m, k) ==
    LET g == GCD(Abs(m), Abs(k))
        s == IF k < 0 THEN -1 ELSE 1
    IN  [num |-> s * (m \div g), den |-> s * (k \div g)]

Zero == Rat(0, 1)
IsZero(p) == p.num = 0
RSub(p, q) == Rat(p.num * q.den - q.num * p.den, p.den * q.den)
RMul(p, q) == Rat(p.num * q.num, p.den * q.den)
RDiv(p, q) == Rat(p.num * q.den, p.den * q.num)
RAbs(p) == [num |-> Abs(p.num), den |-> p.den]
RLt(p, q) == p.num * q.den < q.num * p.den
RLe(p, q) == p.num * q.den <= q.num * p.den

\* a local name that was never assigned
Unbound == [num |-> 0, den |-> 0]
\* Python's None, and a value that is not None
None == << >>
Some(v) == <<v>>

(***************************************************************************)
(* The callables func and deriv.                                           *)
(***************************************************************************)
\* the values func may take, and the values deriv may take
Vals == {Rat(v, 1) : v \in {-MaxVal, -1, 0, 1, MaxVal}}
DVals == {Rat(v, 1) : v \in {-1, 0, MaxVal}}

\* the values an evaluation at x may give: the remembered one, or any of vs
EvalSet(memo, x, vs) == IF x \in DOMAIN memo THEN {memo[x]} ELSE vs
Learn(memo, x, v) == IF x \in DOMAIN memo THEN memo ELSE memo @@ (x :> v)
NoEvals == [x \in {} |-> Zero]

(***************************************************************************)
(* The arguments of a call.                                                *)
(***************************************************************************)
Tols == {Rat(0, 1), Rat(1, 4), Rat(1, 1)}
MaxIters == (-1)..MaxIter
NewtonStarts == {Rat(0, 1), Rat(1, 1)}
SecantStarts == {<<Rat(0, 1), Rat(1, 1)>>, <<Rat(1, 1), Rat(1, 1)>>,
                 <<Rat(2, 1), Rat(-1, 1)>>}
Brackets == {<<Rat(0, 1), Rat(1, 1)>>, <<Rat(-1, 1), Rat(2, 1)>>,
             <<Rat(1, 1), Rat(0, 1)>>}

(***************************************************************************)
(* The guard |den| < 1e-12 of lines 22 and 35.                             *)
(***************************************************************************)
EpsExp == 12

RECURSIVE DivPow10(_, _)
DivPow10(m, e) == IF e = 0 THEN m ELSE DivPow10(m \div 10, e - 1)

\* |p| < 10^-EpsExp  <=>  |num| * 10^EpsExp <= den - 1
BelowEps(p) == Abs(p.num) <= DivPow10(p.den - 1, EpsExp)

\* the guard left out
GuardNever(den) == FALSE

GuardTrips(den) == BelowEps(den)

\* the comparison turned round, and the comparison made non-strict
ConvergedInverted(error, tol) == RLt(tol, error)
ConvergedOrEqual(error, tol) == RLe(error, tol)

\* error < tol
Converged(error, tol) == RLt(error, tol)

\* the loop index recorded as it is
IterIndexZeroBased(k) == k

\* the "Iter" of the record of the step with loop index k
IterIndex(k) == k + 1

(***************************************************************************)
(* Entry of a call: lines 17-18, 31-32, 44.                                *)
(***************************************************************************)
Init ==
    /\ method \in {"newton", "secant", "falsepos"}
    /\ \E tol \in Tols, max_iter \in MaxIters :
         \/ /\ method = "newton"
            /\ \E x0 \in NewtonStarts :
                 /\ args = [x0 |-> x0, x1 |-> Unbound, a |-> Unbound,
                            b |-> Unbound, tol |-> tol, max_iter |-> max_iter]
                 /\ x_curr = x0
                 /\ x_prev = Unbound
            /\ a = Unbound /\ b = Unbound
            /\ pc = "loop"
         \/ /\ method = "secant"
            /\ \E st \in SecantStarts :
                 /\ args = [x0 |-> st[1], x1 |-> st[2], a |-> Unbound,
                            b |-> Unbound, tol |-> tol, max_iter |-> max_iter]
                 /\ x_prev = st[1]
                 /\ x_curr = st[2]
            /\ a = Unbound /\ b = Unbound
            /\ pc = "loop"
         \/ /\ method = "falsepos"
            /\ \E br \in Brackets :
                 /\ args = [x0 |-> Unbound, x1 |-> Unbound, a |-> br[1],
                            b |-> br[2], tol |-> tol, max_iter |-> max_iter]
                 /\ a = br[1]
                 /\ b = br[2]
            /\ x_prev = Unbound /\ x_curr = Unbound
            /\ pc = "check"
    /\ c = Unbound /\ c_old = Unbound
    /\ i = 0
    /\ history = << >>
    /\ fmemo = NoEvals /\ dmemo = NoEvals
    /\ left_by = "none"
    /\ result = [estimate |-> None, trace |-> None]
    /\ exc = "none"

Raise(name) ==
    /\ pc' = "raised"
    /\ exc' = name
    /\ UNCHANGED <<left_by, result>>

Break(why) ==
    /\ pc' = "return"
    /\ left_by' = why
    /\ UNCHANGED <<result, exc>>

Continue ==
    /\ UNCHANGED <<pc, left_by, result, exc>>

(***************************************************************************)
(* newton_raphson: one pass of the loop body, lines 19-27.                 *)
(***************************************************************************)
NewtonRecord(k, x, f_val, error) ==
    [Iter |-> IterIndex(k), Method |-> "Newton", x_curr |-> x, fx |-> f_val,
     Error |-> error]

NewtonStep ==
    /\ method = "newton" /\ pc = "loop" /\ i < args.max_iter
    /\ i' = i + 1
    /\ \E f_val \in EvalSet(fmemo, x_curr, Vals),
          f_prime \in EvalSet(dmemo, x_curr, DVals) :
         /\ fmemo' = Learn(fmemo, x_curr, f_val)
         /\ dmemo' = Learn(dmemo, x_curr, f_prime)
         /\ IF GuardTrips(f_prime)
            THEN /\ Break("guard")
                 /\ UNCHANGED <<history, x_curr>>
            ELSE IF IsZero(f_prime)
            THEN /\ Raise("ZeroDivisionError")
                 /\ UNCHANGED <<history, x_curr>>
            ELSE LET x_next == RSub(x_curr, RDiv(f_val, f_prime))
                     error == RAbs(RSub(x_next, x_curr))
                 IN  /\ history' = Append(history,
                                     NewtonRecord(i, x_curr, f_val, error))
                     /\ x_curr' = x_next
                     /\ IF Converged(error, args.tol)
                        THEN Break("converged")
                        ELSE Continue
    /\ UNCHANGED <<method, args, x_prev, a, b, c, c_old>>

\* range(max_iter) is exhausted: the for statement ends
LoopExhausted ==
    /\ pc = "loop" /\ i >= args.max_iter
    /\ Break("exhausted")
    /\ UNCHANGED <<method, args, i, history, x_prev, x_curr, a, b, c, c_old,
                   fmemo, dmemo>>

\* line 28
NewtonReturn ==
    /\ method = "newton" /\ pc = "return"
    /\ pc' = "done"
    /\ result' = [estimate |-> Some(x_curr), trace |-> Some(history)]
    /\ UNCHANGED <<method, args, i, history, x_prev, x_curr, a, b, c, c_old,
                   fmemo, dmemo, left_by, exc>>

(***************************************************************************)
(* secant_method: one pass of the loop body, lines 33-40.                  *)
(***************************************************************************)
SecantRecord(k, x, f_curr, error) ==
    [Iter |-> IterIndex(k), Method |-> "Secant", x_curr |-> x, fx |-> f_curr,
     Error |-> error]

SecantStep ==
    /\ method = "secant" /\ pc = "loop" /\ i < args.max_iter
    /\ i' = i + 1
    /\ \E f_curr \in EvalSet(fmemo, x_curr, Vals) :
       \E f_prev \in EvalSet(Learn(fmemo, x_curr, f_curr), x_prev, Vals) :
         /\ fmemo' = Learn(Learn(fmemo, x_curr, f_curr), x_prev, f_prev)
         /\ IF GuardTrips(RSub(f_curr, f_prev))
            THEN /\ Break("guard")
                 /\ UNCHANGED <<history, x_prev, x_curr>>
            ELSE IF IsZero(RSub(f_curr, f_prev))
            THEN /\ Raise("ZeroDivisionError")
                 /\ UNCHANGED <<history, x_prev, x_curr>>
            ELSE LET x_next == RSub(x_curr,
                                   RMul(f_curr, RDiv(RSub(x_curr, x_prev),
                                                     RSub(f_curr, f_prev))))
                     error == RAbs(RSub(x_next, x_curr))
                 IN  /\ history' = Append(history,
                                     SecantRecord(i, x_curr, f_curr, error))
                     /\ x_prev' = x_curr
                     /\ x_curr' = x_next
                     /\ IF Converged(error, args.tol)
                        THEN Break("converged")
                        ELSE Continue
    /\ UNCHANGED <<method, args, a, b, c, c_old, dmemo>>

\* line 41
SecantReturn ==
    /\ method = "secant" /\ pc = "return"
    /\ pc' = "done"
    /\ result' = [estimate |-> Some(x_curr), trace |-> Some(history)]
    /\ UNCHANGED <<method, args, i, history, x_prev, x_curr, a, b, c, c_old,
                   fmemo, dmemo, left_by, exc>>

(***************************************************************************)
(* false_position: the bracket test of line 45, one pass of the loop body  *)
(* (lines 48-57), and the return of line 58.                               *)
(***************************************************************************)
\* the test made strict: a zero endpoint value passes
InvalidBracketStrict(fa, fb) == RLt(Zero, RMul(fa, fb))

\* func(a) * func(b) >= 0
InvalidBracket(fa, fb) == RLe(Zero, RMul(fa, fb))

\* c_old started at the other endpoint
InitialCOldUpper(lo, hi) == hi

\* line 47
InitialCOld(lo, hi) == lo

\* fa taken for fb in the numerator
ChordPointWrongValue(lo, hi, fa, fb) ==
    RSub(hi, RMul(fa, RDiv(RSub(hi, lo), RSub(fb, fa))))

\* line 50: c = b - fb * ((b - a) / (fb - fa))
ChordPoint(lo, hi, fa, fb) ==
    RSub(hi, RMul(fb, RDiv(RSub(hi, lo), RSub(fb, fa))))

\* the two branches exchanged
UpdateBracketSwapped(lo, hi, fa, fc, root) ==
    IF RLt(RMul(fa, fc), Zero) THEN <<root, hi>> ELSE <<lo, root>>

\* lines 55-56: the bracket after the update, as <<a, b>>
UpdateBracket(lo, hi, fa, fc, root) ==
    IF RLt(RMul(fa, fc), Zero) THEN <<lo, root>> ELSE <<root, hi>>

FPRecord(k, lo, hi, root, fc, error) ==
    [Iter |-> IterIndex(k), Method |-> "FalsePos", a |-> lo, b |-> hi,
     root |-> root, fx |-> fc, Error |-> error]

FPCheck ==
    /\ method = "falsepos" /\ pc = "check"
    /\ \E fa \in EvalSet(fmemo, a, Vals) :
       \E fb \in EvalSet(Learn(fmemo, a, fa), b, Vals) :
         /\ fmemo' = Learn(Learn(fmemo, a, fa), b, fb)
         /\ IF InvalidBracket(fa, fb)
            THEN /\ pc' = "done"
                 /\ result' = [estimate |-> None, trace |-> None]
                 /\ UNCHANGED c_old
            ELSE /\ pc' = "loop"
                 /\ c_old' = InitialCOld(a, b)
                 /\ UNCHANGED result
    /\ UNCHANGED <<method, args, i, history, x_prev, x_curr, a, b, c, dmemo,
                   left_by, exc>>

FPStep ==
    /\ method = "falsepos" /\ pc = "loop" /\ i < args.max_iter
    /\ i' = i + 1
    /\ \E fa \in EvalSet(fmemo, a, Vals) :
       \E fb \in EvalSet(Learn(fmemo, a, fa), b, Vals) :
         LET m1 == Learn(Learn(fmemo, a, fa), b, fb)
         IN  IF IsZero(RSub(fb, fa))
             THEN /\ Raise("ZeroDivisionError")
                  /\ fmemo' = m1
                  /\ UNCHANGED <<history, a, b, c, c_old>>
             ELSE LET root == ChordPoint(a, b, fa, fb)
                  IN  \E fc \in EvalSet(m1, root, Vals) :
                        LET error == RAbs(RSub(root, c_old))
                            br == UpdateBracket(a, b, fa, fc, root)
                        IN  /\ fmemo' = Learn(m1, root, fc)
                            /\ c' = root
                            /\ history' = Append(history,
                                   FPRecord(i, a, b, root, fc, error))
                            /\ IF Converged(error, args.tol)
                               THEN /\ Break("converged")
                                    /\ UNCHANGED <<a, b, c_old>>
                               ELSE /\ Continue
                                    /\ a' = br[1]
                                    /\ b' = br[2]
                                    /\ c_old' = root
    /\ UNCHANGED <<method, args, x_prev, x_curr, dmemo>>

\* line 58: reading c before any assignment raises UnboundLocalError
FPReturn ==
    /\ method = "falsepos" /\ pc = "return"
    /\ IF c = Unbound
       THEN /\ pc' = "raised"
            /\ exc' = "UnboundLocalError"
            /\ UNCHANGED result
       ELSE /\ pc' = "done"
            /\ result' = [estimate |-> Some(c), trace |-> Some(history)]
            /\ UNCHANGED exc
    /\ UNCHANGED <<method, args, i, history, x_prev, x_curr, a, b, c, c_old,
                   fmemo, dmemo, left_by>>

Next ==
    \/ NewtonStep
    \/ NewtonReturn
    \/ SecantStep
    \/ SecantReturn
    \/ FPCheck
    \/ FPStep
    \/ FPReturn
    \/ LoopExhausted

Spec == Init /\ [][Next]_vars
(***************************************************************************)
(* Properties.                                                             *)
(***************************************************************************)
Last(h) == h[Len(h)]
Returned == pc = "done"
Sentinel == [estimate |-> None, trace |-> None]
\* false_position is past the bracket test of line 45
FPChecked == method = "falsepos" /\ pc # "check"
\* func(a) * func(b) for the bracket the call was given
FPProduct == RMul(fmemo[args.a], fmemo[args.b])

\* C1: false_position returns (None, None) whenever f(a)*f(b) >= 0, with no
\* iteration, no record and no evaluation beyond f(a) and f(b); when
\* f(a)*f(b) < 0 and max_iter >= 1 what it returns is never the sentinel.
C1_InvalidBracketSentinel ==
    FPChecked =>
      /\ RLe(Zero, FPProduct) =>
            /\ Returned
            /\ result = Sentinel
            /\ i = 0 /\ history = << >> /\ c = Unbound
            /\ DOMAIN fmemo = {args.a, args.b}
      /\ (RLt(FPProduct, Zero) /\ args.max_iter >= 1 /\ Returned) =>
            /\ result.estimate # None
            /\ result.trace # None

C1_Witness ==
    /\ FPChecked /\ Returned
    /\ IsZero(fmemo[args.a]) /\ ~IsZero(fmemo[args.b])
    /\ result = Sentinel

\* C2: in false_position, from a valid bracket, f(a)*f(b) < 0 holds for the
\* current bracket before and after every bracket update.
C2_BracketInvariant ==
    (method = "falsepos" /\ pc \in {"loop", "return"}) =>
      RLt(RMul(fmemo[a], fmemo[b]), Zero)

\* C3 as stated: the returned trace has at most max_iter records, and the
\* record at position k has Iter = k.
C3_TraceWithinMaxIter ==
    (Returned /\ result.trace # None) =>
      LET t == result.trace[1]
      IN  /\ Len(t) <= args.max_iter
          /\ \A k \in 1..Len(t) : t[k].Iter = k

\* C3 amended: the returned trace has at most max(max_iter, 0) records, and
\* the record at position k has Iter = k.
C3_TraceWithinCap ==
    (Returned /\ result.trace # None) =>
      LET t == result.trace[1]
      IN  /\ Len(t) <= (IF args.max_iter < 0 THEN 0 ELSE args.max_iter)
          /\ \A k \in 1..Len(t) : t[k].Iter = k

C3_Witness ==
    /\ Returned /\ result.trace # None
    /\ args.max_iter >= 2
    /\ Len(result.trace[1]) = args.max_iter

\* C4: a record with Error < tol is the last record of the trace and the
\* loop has been left once it is appended; the returned trace is that trace.
C4_StopsAtFirstConverged ==
    /\ \A k \in 1..Len(history) :
         RLt(history[k].Error, args.tol) =>
           /\ k = Len(history)
           /\ pc \in {"return", "done"}
    /\ (Returned /\ result.trace # None) => result.trace = Some(history)

C4_Witness ==
    /\ Returned /\ Len(history) >= 2
    /\ RLt(Last(history).Error, args.tol)
    /\ result.trace = Some(history)

\* C5: no call raises.
C5_NeverRaises == pc # "raised"
\* The denominator the step about to run tests against 1e-12, from the
\* evaluations that step makes (primed memo, unprimed estimates).
StepDenominator ==
    IF method = "newton"
    THEN dmemo'[x_curr]
    ELSE RSub(fmemo'[x_curr], fmemo'[x_prev])

\* C6: in newton_raphson and secant_method a step k whose denominator is
\* below 1e-12 in magnitude leaves the loop at once, appends no record and
\* leaves x_curr as it was; the call returns that x_curr with the k-1
\* records made so far, which on the first step is the initial estimate
\* (x0 for Newton, x1 for Secant) and an empty trace.
C6_DenominatorGuard ==
    /\ [][(/\ method \in {"newton", "secant"}
            /\ pc = "loop" /\ i' = i + 1
            /\ BelowEps(StepDenominator))
           => (/\ pc' = "return" /\ left_by' = "guard"
               /\ history' = history
               /\ x_curr' = x_curr
               /\ Len(history') = i' - 1)]_vars
    /\ [](left_by = "guard" =>
            /\ method \in {"newton", "secant"}
            /\ Len(history) = i - 1
            /\ history = << >> =>
                 x_curr = (IF method = "newton" THEN args.x0 ELSE args.x1)
            /\ Returned =>
                 result = [estimate |-> Some(x_curr), trace |-> Some(history)])

C6_Witness ==
    /\ Returned /\ left_by = "guard"
    /\ Len(history) >= 1
    /\ result = [estimate |-> Some(x_curr), trace |-> Some(history)]

\* C7: with max_iter >= 1, a call that returns a trace left its loop by
\* exhausting range(max_iter) exactly when the trace has max_iter records
\* and its last record has Error >= tol; a call that left by the
\* denominator guard returns fewer than max_iter records.
C7_NonConvergenceFromTrace ==
    (Returned /\ args.max_iter >= 1 /\ result.trace # None) =>
      LET t == result.trace[1]
      IN  /\ left_by = "exhausted" <=>
                (/\ Len(t) = args.max_iter
                 /\ RLe(args.tol, Last(t).Error))
          /\ left_by = "guard" => Len(t) < args.max_iter

C7_Witness ==
    /\ Returned /\ left_by = "exhausted"
    /\ args.max_iter >= 2
    /\ Len(result.trace[1]) = args.max_iter
    /\ RLe(args.tol, Last(result.trace[1]).Error)

\* C8: a false_position step records the bracket it started from; if its
\* Error is not below tol it moves exactly one endpoint to c (b when
\* f(a)*f(c) < 0, otherwise a, also when f(a)*f(c) = 0) and stays in the
\* loop; if its Error is below tol it leaves the bracket alone.  The
\* returned estimate is the root of the last record, and after convergence
\* the a, b of the last record are the final bracket.
C8_BracketUpdate ==
    /\ [][(/\ method = "falsepos" /\ pc = "loop"
            /\ Len(history') = Len(history) + 1)
           => LET rec == Last(history')
              IN  /\ rec.a = a /\ rec.b = b /\ c' = rec.root
                  /\ IF RLt(rec.Error, args.tol)
                     THEN a' = a /\ b' = b /\ pc' = "return"
                     ELSE /\ pc' = "loop"
                          /\ IF RLt(RMul(fmemo'[a], rec.fx), Zero)
                             THEN b' = rec.root /\ a' = a
                             ELSE a' = rec.root /\ b' = b]_vars
    /\ []((method = "falsepos" /\ Returned /\ result.trace # None) =>
            /\ result.estimate = Some(Last(history).root)
            /\ left_by = "converged" =>
                 (Last(history).a = a /\ Last(history).b = b))

C8_Witness ==
    /\ method = "falsepos" /\ pc = "loop"
    /\ Len(history) >= 1
    /\ IsZero(Last(history).fx)
    /\ a = Last(history).root
    /\ b = Last(history).b

\* C9: in false_position the Error of the first record is |c_1 - a0| for
\* the left endpoint a0 the call was given, and the Error of record k > 1
\* is |c_k - c_(k-1)|; while the loop runs c_old is the last root.
C9_ErrorIsStepBetweenRoots ==
    method = "falsepos" =>
      /\ \A k \in 1..Len(history) :
           history[k].Error =
             RAbs(RSub(history[k].root,
                       IF k = 1 THEN args.a ELSE history[k - 1].root))
      /\ (pc = "loop" /\ Len(history) >= 1) => c_old = Last(history).root

C9_Witness ==
    /\ method = "falsepos" /\ Len(history) >= 3
    /\ history[2].a # history[1].a
    /\ history[3].b # history[2].b

\* C10: in false_position from a valid bracket with a < b, every record has
\* a <= root <= b, from one record to the next a does not decrease and b
\* does not increase, and the record after one with f(c) = 0 has the same
\* root and Error 0, so that for tol > 0 it is the last record.
C10_NestedBrackets ==
    (FPChecked /\ RLt(args.a, args.b)) =>
      /\ \A k \in 1..Len(history) :
           /\ RLe(history[k].a, history[k].root)
           /\ RLe(history[k].root, history[k].b)
           /\ RLe(history[k].a, history[k].b)
      /\ \A k \in 1..(Len(history) - 1) :
           /\ RLe(history[k].a, history[k + 1].a)
           /\ RLe(history[k + 1].b, history[k].b)
           /\ IsZero(history[k].fx) =>
                /\ history[k + 1].root = history[k].root
                /\ IsZero(history[k + 1].Error)
                /\ RLt(Zero, args.tol) =>
                     (k + 1 = Len(history) /\ pc # "loop")
      /\ (pc \in {"loop", "return"} /\ Len(history) >= 1) =>
           /\ RLe(Last(history).a, a)
           /\ RLe(b, Last(history).b)
           /\ RLe(a, b)

C10_Witness ==
    /\ FPChecked /\ RLt(args.a, args.b) /\ Returned
    /\ RLt(Zero, args.tol)
    /\ Len(history) = 2
    /\ IsZero(history[1].fx)
    /\ history[2].root = history[1].root
====
